---- MODULE Spec2Model ----
(***************************************************************************)
(* Model of src/KWS.py: keyword spotting over a speech transcript.         *)
(*                                                                         *)
(* A Python str is a sequence of one-character strings.  A Python float    *)
(* produced by "/" is an exact rational <<num, den>> in lowest terms with  *)
(* den > 0; ZeroDiv stands for the ZeroDivisionError that "/" raises.      *)
(* None is NoneVal; a str value s is Str(s).                               *)
(***************************************************************************)
EXTENDS Integers, Sequences, FiniteSets, TLC

VARIABLES
    entry,                      \* the function the run calls first
    pc,                         \* position in main / in the called function
    keywords,                   \* argument: list of keyword strings
    transcription,              \* NoneVal or Str(text)
    transcriber_result,         \* how audio_to_text ended
    steps,                      \* components executed so far, in order
    out,                        \* messages printed so far, in order
    raised,                     \* "none" or the exception that ended the run
    keyword_intervals,          \* list of <<keyword, start, end>>
    detected_keywords,          \* list of keyword strings
    keyword_positions,          \* dict keyword -> list of <<start, end>>
    metrics,                    \* <<precision, recall, f1_score>>
    keyword_metrics,            \* dict keyword -> per-keyword record
    audio_duration,             \* seconds, a rational
    keyword_intervals_in_time   \* list of <<keyword, start_s, end_s>>

vars == <<entry, pc, keywords, transcription, transcriber_result, steps, out,
          raised, keyword_intervals, detected_keywords, keyword_positions,
          metrics, keyword_metrics, audio_duration, keyword_intervals_in_time>>

----------------------------------------------------------------------------
(* Bounds of the explored inputs.                                          *)

MaxT == 3
MaxKwLen == 1
MaxKws == 2
MainMaxT == 2
MainMaxKws == 1
MaxOcc == 2
MaxSeconds == 2

(* preprocess_audio resamples to 16000 frames per second.                  *)
SampleRate == 16000

----------------------------------------------------------------------------
(* Strings.                                                                *)

Alphabet == {"a", "b", "A"}

Lower(c) ==
    CASE c = "A" -> "a"
      [] c = "B" -> "b"
      [] c = "Q" -> "q"
      [] OTHER -> c

LowerStr(s) == [i \in 1..Len(s) |-> Lower(s[i])]

Range(s) == {s[i] : i \in 1..Len(s)}

SeqsUpTo(S, n) == UNION {[1..m -> S] : m \in 0..n}

SetMin(S) == CHOOSE x \in S : \A y \in S : x <= y

(* str.find: lowest index at which k occurs in t, -1 when there is none.   *)
Find(t, k) ==
    LET hits == {i \in 0..(Len(t) - Len(k)) : SubSeq(t, i + 1, i + Len(k)) = k}
    IN  IF hits = {} THEN -1 ELSE SetMin(hits)

NoneVal == [kind |-> "None", val |-> <<>>]
Str(s) == [kind |-> "str", val |-> s]

(* Python truth value of a transcription: None and "" are false.           *)
Truthy(x) == x.kind = "str" /\ x.val # <<>>

----------------------------------------------------------------------------
(* Rational arithmetic standing for float arithmetic.                      *)

RECURSIVE GCD(_, _)
GCD(a, b) == IF b = 0 THEN a ELSE GCD(b, a % b)

Abs(n) == IF n < 0 THEN -n ELSE n

ZeroDiv == <<1, 0>>
Zero == <<0, 1>>
One == <<1, 1>>
IntVal(n) == <<n, 1>>

IsErr(x) == x[2] = 0

Norm(n, d) ==
    LET g == GCD(Abs(n), Abs(d))
        s == IF d < 0 THEN -1 ELSE 1
    IN  <<s * (n \div g), s * (d \div g)>>

FDiv(x, y) ==
    IF IsErr(x) \/ IsErr(y) THEN ZeroDiv
    ELSE IF y[1] = 0 THEN ZeroDiv
    ELSE IF x[1] = 0 THEN Zero
    ELSE Norm(x[1] * y[2], x[2] * y[1])

FMul(x, y) ==
    IF IsErr(x) \/ IsErr(y) THEN ZeroDiv
    ELSE IF x[1] = 0 \/ y[1] = 0 THEN Zero
    ELSE Norm(x[1] * y[1], x[2] * y[2])

FAdd(x, y) ==
    IF IsErr(x) \/ IsErr(y) THEN ZeroDiv
    ELSE LET n == x[1] * y[2] + y[1] * x[2]
         IN  IF n = 0 THEN Zero ELSE Norm(n, x[2] * y[2])

FPos(x) == ~IsErr(x) /\ x[1] > 0

----------------------------------------------------------------------------
(* detect_keywords                                                         *)

EmptyDetection(ks) ==
    [raised |-> "none",
     keyword_intervals |-> <<>>,
     detected_keywords |-> <<>>,
     keyword_positions |-> [k \in Range(ks) |-> <<>>],
     notices |-> <<>>]

(* Lines 54-57, for a keyword found at start.  keyword_positions[keyword]  *)
(* raises KeyError when the lower-cased keyword is no key of the dict; the *)
(* two list appends before it have already happened.                       *)
RecordOccurrenceSwapped(acc, keyword, start) ==
    LET end == start + Len(keyword)
        a1 == [acc EXCEPT !.keyword_intervals = Append(@, <<keyword, start, end>>),
                          !.detected_keywords = <<keyword>> \o @]
    IN  IF keyword \in DOMAIN acc.keyword_positions
        THEN [a1 EXCEPT !.keyword_positions[keyword] = Append(@, <<start, end>>)]
        ELSE [a1 EXCEPT !.raised = "KeyError"]

RecordOccurrence(acc, keyword, start) ==
    LET end == start + Len(keyword)
        a1 == [acc EXCEPT !.keyword_intervals = Append(@, <<keyword, start, end>>),
                          !.detected_keywords = Append(@, keyword)]
    IN  IF keyword \in DOMAIN acc.keyword_positions
        THEN [a1 EXCEPT !.keyword_positions[keyword] = Append(@, <<start, end>>)]
        ELSE [a1 EXCEPT !.raised = "KeyError"]

(* The for loop of lines 50-59 from its i-th iteration on; t is the        *)
(* lower-cased transcription.                                              *)
RECURSIVE DetectLoop(_, _, _, _)
DetectLoop(t, ks, i, acc) ==
    IF i > Len(ks) \/ acc.raised # "none" THEN acc
    ELSE LET keyword == LowerStr(ks[i])
             start == Find(t, keyword)
         IN  IF start # -1
             THEN DetectLoop(t, ks, i + 1, RecordOccurrence(acc, keyword, start))
             ELSE DetectLoop(t, ks, i + 1,
                             [acc EXCEPT !.notices = Append(@, "Keyword not found.")])

HasTranscriptionNotNone(tr) == tr.kind = "str"

(* The test "if transcription:" of line 48.                                *)
HasTranscription(tr) == Truthy(tr)

detect_keywords(tr, ks) ==
    IF HasTranscription(tr)
    THEN DetectLoop(LowerStr(tr.val), ks, 1, EmptyDetection(ks))
    ELSE EmptyDetection(ks)

----------------------------------------------------------------------------
(* compute_accuracy                                                        *)

PrecisionUnguarded(tp, fp) ==
    IF (tp + fp) >= 0 THEN FDiv(IntVal(tp), IntVal(tp + fp)) ELSE Zero

Precision(tp, fp) ==
    IF (tp + fp) > 0 THEN FDiv(IntVal(tp), IntVal(tp + fp)) ELSE Zero

Recall(tp, fn) ==
    IF (tp + fn) > 0 THEN FDiv(IntVal(tp), IntVal(tp + fn)) ELSE Zero

F1Score(precision, recall) ==
    IF FPos(FAdd(precision, recall))
    THEN FDiv(FMul(IntVal(2), FMul(precision, recall)), FAdd(precision, recall))
    ELSE Zero

AccTruePositives(detected, ks) == Cardinality(Range(detected) \cap Range(ks))
AccFalsePositives(detected, ks) == Len(detected) - AccTruePositives(detected, ks)
AccFalseNegatives(detected, ks) == Len(ks) - AccTruePositives(detected, ks)

compute_accuracy(detected, ks) ==
    LET true_positives == AccTruePositives(detected, ks)
        false_positives == AccFalsePositives(detected, ks)
        false_negatives == AccFalseNegatives(detected, ks)
        precision == Precision(true_positives, false_positives)
        recall == Recall(true_positives, false_negatives)
        f1_score == F1Score(precision, recall)
    IN  <<precision, recall, f1_score>>

----------------------------------------------------------------------------
(* compute_individual_keyword_metrics                                      *)

RECURSIVE SumLen(_, _)
SumLen(kp, S) ==
    IF S = {} THEN 0
    ELSE LET k == CHOOSE x \in S : TRUE
         IN  Len(kp[k]) + SumLen(kp, S \ {k})

(* keyword_positions.get(keyword, [])                                      *)
Get(kp, keyword) == IF keyword \in DOMAIN kp THEN kp[keyword] ELSE <<>>

KwTruePositives(kp, keyword) == Len(Get(kp, keyword))

KwFalsePositivesAllKeys(kp, keyword) == SumLen(kp, DOMAIN kp)

KwFalsePositives(kp, keyword) == SumLen(kp, (DOMAIN kp) \ {keyword})

KwFalseNegatives(kp, keyword) == IF KwTruePositives(kp, keyword) = 0 THEN 1 ELSE 0

KeywordMetric(kp, keyword) ==
    LET true_positives == KwTruePositives(kp, keyword)
        false_positives == KwFalsePositives(kp, keyword)
        false_negatives == KwFalseNegatives(kp, keyword)
        precision == IF (true_positives + false_positives) > 0
                     THEN FDiv(IntVal(true_positives),
                               IntVal(true_positives + false_positives))
                     ELSE Zero
        recall == IF (true_positives + false_negatives) > 0
                  THEN FDiv(IntVal(true_positives),
                            IntVal(true_positives + false_negatives))
                  ELSE Zero
        f1_score == IF FPos(FAdd(precision, recall))
                    THEN FDiv(FMul(IntVal(2), FMul(precision, recall)),
                              FAdd(precision, recall))
                    ELSE Zero
    IN  [precision |-> precision,
         recall |-> recall,
         f1_score |-> f1_score,
         true_positives |-> true_positives,
         false_positives |-> false_positives,
         false_negatives |-> false_negatives]

compute_individual_keyword_metrics(kp, ks) ==
    [keyword \in Range(ks) |-> KeywordMetric(kp, keyword)]

----------------------------------------------------------------------------
(* The time mapping of main, line 166.                                     *)

TimeOfInverted(offset, length, duration) ==
    FMul(FDiv(IntVal(length), IntVal(offset)), duration)

TimeOf(offset, length, duration) ==
    FMul(FDiv(IntVal(offset), IntVal(length)), duration)

IntervalsInTime(intervals, length, duration) ==
    [i \in 1..Len(intervals) |->
        <<intervals[i][1],
          TimeOf(intervals[i][2], length, duration),
          TimeOf(intervals[i][3], length, duration)>>]

----------------------------------------------------------------------------
(* Inputs.                                                                 *)

Keywords == SeqsUpTo(Alphabet, MaxKwLen)

TheQuickBrownFox ==
    <<"t","h","e"," ","q","u","i","c","k"," ","b","r","o","w","n"," ","f","o","x">>
TwentyChars == TheQuickBrownFox \o <<"!">>
AQuickFox == <<"a"," ","q","u","i","c","k"," ","f","o","x">>
Quick == <<"q","u","i","c","k">>
QuickCapital == <<"Q","u","i","c","k">>
Cat == <<"c","a","t">>

ExampleTexts == {TheQuickBrownFox, TwentyChars, AQuickFox, <<"b","a","b","A","b">>}
ExampleLists ==
    {<<Quick, Cat>>, <<QuickCapital>>, <<Quick>>, <<Cat, Quick>>,
     <<<<"a","b">>, <<"b","a">>>>, <<<<"a","b">>, <<"A","B">>>>,
     <<<<"b","a","b">>, <<"a","b">>, <<"b","a","b">>>>,
     <<<<"a","a">>>>, <<<<"A","b">>, <<"a","b">>>>, <<<<"a","b">>, <<"b">>, <<>>>>}

DetectTexts == SeqsUpTo(Alphabet, MaxT) \cup ExampleTexts
DetectLists == SeqsUpTo(Keywords, MaxKws) \cup ExampleLists

MainTexts == SeqsUpTo(Alphabet, MainMaxT) \cup ExampleTexts
MainLists == SeqsUpTo(Keywords, MainMaxKws) \cup ExampleLists

SampleCounts == {s * SampleRate : s \in 0..MaxSeconds} \cup {10 * SampleRate}

MetricKeys == {<<"a">>, <<"b">>, <<"A">>}
MetricLists == SeqsUpTo(MetricKeys, MaxKws)
OccList(n) == [i \in 1..n |-> <<i - 1, i>>]
MetricPositions ==
    UNION {[D -> {OccList(n) : n \in 0..MaxOcc}] : D \in SUBSET MetricKeys}

----------------------------------------------------------------------------
(* Initial states: one per entry point.                                    *)

Unset ==
    /\ transcriber_result = "none"
    /\ steps = <<>>
    /\ out = <<>>
    /\ raised = "none"
    /\ keyword_intervals = <<>>
    /\ metrics = <<>>
    /\ keyword_metrics = <<>>
    /\ audio_duration = Zero
    /\ keyword_intervals_in_time = <<>>

Init ==
    /\ entry = "main"
    /\ pc = "start"
    /\ keywords \in MainLists
    /\ transcription = NoneVal
    /\ detected_keywords = <<>>
    /\ keyword_positions = <<>>
    /\ Unset

DetectInit ==
    /\ entry = "detect_keywords"
    /\ pc = "detect"
    /\ keywords \in DetectLists
    /\ transcription \in {NoneVal} \cup {Str(t) : t \in DetectTexts}
    /\ detected_keywords = <<>>
    /\ keyword_positions = <<>>
    /\ Unset

AccuracyInit ==
    /\ entry = "compute_accuracy"
    /\ pc = "accuracy"
    /\ keywords \in MetricLists
    /\ detected_keywords \in MetricLists
    /\ transcription = NoneVal
    /\ keyword_positions = <<>>
    /\ Unset

KeywordMetricsInit ==
    /\ entry = "compute_individual_keyword_metrics"
    /\ pc = "individual"
    /\ keywords \in MetricLists
    /\ keyword_positions \in MetricPositions
    /\ transcription = NoneVal
    /\ detected_keywords = <<>>
    /\ Unset

----------------------------------------------------------------------------
(* main, one action per statement.                                         *)

(* Line 134.  A decode failure of the input file propagates out of main.   *)
Preprocess ==
    /\ pc = "start"
    /\ steps' = Append(steps, "normalizer")
    /\ \E ok \in BOOLEAN :
          IF ok THEN pc' = "transcribe" /\ raised' = raised
                ELSE pc' = "raised" /\ raised' = "DecodeError"
    /\ UNCHANGED <<entry, keywords, transcription, transcriber_result, out,
                   keyword_intervals, detected_keywords, keyword_positions,
                   metrics, keyword_metrics, audio_duration,
                   keyword_intervals_in_time>>

FailureMessage(r) ==
    CASE r = "UnknownValueError" ->
            <<"Audio successfully read from file.",
              "Google Speech Recognition could not understand audio">>
      [] r = "RequestError" ->
            <<"Audio successfully read from file.",
              "Could not request results from Google Speech Recognition service">>
      [] OTHER -> <<"Failed to read audio file">>

(* Lines 137 and 23-30: the recogniser returns a text.                     *)
AudioToTextRecognized ==
    /\ pc = "transcribe"
    /\ \E t \in MainTexts : transcription' = Str(t)
    /\ transcriber_result' = "text"
    /\ out' = out \o <<"Audio successfully read from file.", "Recognized text">>
    /\ steps' = Append(steps, "transcriber")
    /\ pc' = "check"
    /\ UNCHANGED <<entry, keywords, raised, keyword_intervals, detected_keywords,
                   keyword_positions, metrics, keyword_metrics, audio_duration,
                   keyword_intervals_in_time>>

(* Lines 137 and 31-39: every exception is caught and None is returned.    *)
AudioToTextFailed ==
    /\ pc = "transcribe"
    /\ \E r \in {"UnknownValueError", "RequestError", "Exception"} :
          /\ transcriber_result' = r
          /\ out' = out \o FailureMessage(r)
    /\ transcription' = NoneVal
    /\ steps' = Append(steps, "transcriber")
    /\ pc' = "check"
    /\ UNCHANGED <<entry, keywords, raised, keyword_intervals, detected_keywords,
                   keyword_positions, metrics, keyword_metrics, audio_duration,
                   keyword_intervals_in_time>>

MainHasTranscriptionAlways(tr) == TRUE

(* The test "if transcription:" of line 139.                               *)
MainHasTranscription(tr) == Truthy(tr)

(* Lines 139-140.                                                          *)
MainIf ==
    /\ pc = "check"
    /\ MainHasTranscription(transcription)
    /\ out' = Append(out, "Transcription")
    /\ pc' = "detect"
    /\ UNCHANGED <<entry, keywords, transcription, transcriber_result, steps,
                   raised, keyword_intervals, detected_keywords,
                   keyword_positions, metrics, keyword_metrics, audio_duration,
                   keyword_intervals_in_time>>

(* Lines 174-175.                                                          *)
MainElse ==
    /\ pc = "check"
    /\ ~MainHasTranscription(transcription)
    /\ out' = Append(out, "No transcription available.")
    /\ pc' = "done"
    /\ UNCHANGED <<entry, keywords, transcription, transcriber_result, steps,
                   raised, keyword_intervals, detected_keywords,
                   keyword_positions, metrics, keyword_metrics, audio_duration,
                   keyword_intervals_in_time>>

(* Line 142: the call of detect_keywords; a KeyError ends the run.         *)
DetectKeywords ==
    /\ pc = "detect"
    /\ LET r == detect_keywords(transcription, keywords)
       IN  /\ out' = out \o r.notices
           /\ IF r.raised = "none"
              THEN /\ keyword_intervals' = r.keyword_intervals
                   /\ detected_keywords' = r.detected_keywords
                   /\ keyword_positions' = r.keyword_positions
                   /\ raised' = raised
                   /\ pc' = "accuracy"
              ELSE /\ raised' = r.raised
                   /\ pc' = "raised"
                   /\ UNCHANGED <<keyword_intervals, detected_keywords,
                                  keyword_positions>>
    /\ steps' = Append(steps, "detector")
    /\ UNCHANGED <<entry, keywords, transcription, transcriber_result, metrics,
                   keyword_metrics, audio_duration, keyword_intervals_in_time>>

(* Lines 145-148.                                                          *)
ComputeAccuracy ==
    /\ pc = "accuracy"
    /\ LET m == compute_accuracy(detected_keywords, keywords)
       IN  IF \E i \in 1..3 : IsErr(m[i])
           THEN /\ raised' = "ZeroDivisionError"
                /\ pc' = "raised"
                /\ UNCHANGED <<metrics, out>>
           ELSE /\ metrics' = m
                /\ raised' = raised
                /\ pc' = IF entry = "compute_accuracy" THEN "done" ELSE "individual"
                /\ out' = IF entry = "main"
                          THEN out \o <<"Overall Precision", "Overall Recall",
                                        "Overall F1 Score">>
                          ELSE out
    /\ steps' = Append(steps, "scorer")
    /\ UNCHANGED <<entry, keywords, transcription, transcriber_result,
                   keyword_intervals, detected_keywords, keyword_positions,
                   keyword_metrics, audio_duration, keyword_intervals_in_time>>

(* Lines 151-159.                                                          *)
ComputeIndividual ==
    /\ pc = "individual"
    /\ LET km == compute_individual_keyword_metrics(keyword_positions, keywords)
       IN  IF \E k \in DOMAIN km :
                 IsErr(km[k].precision) \/ IsErr(km[k].recall) \/ IsErr(km[k].f1_score)
           THEN /\ raised' = "ZeroDivisionError"
                /\ pc' = "raised"
                /\ UNCHANGED <<keyword_metrics, out>>
           ELSE /\ keyword_metrics' = km
                /\ raised' = raised
                /\ pc' = IF entry = "main" THEN "duration" ELSE "done"
                /\ out' = IF entry = "main"
                          THEN out \o [i \in 1..Cardinality(DOMAIN km) |-> "Keyword metrics"]
                          ELSE out
    /\ steps' = Append(steps, "keyword_scorer")
    /\ UNCHANGED <<entry, keywords, transcription, transcriber_result,
                   keyword_intervals, detected_keywords, keyword_positions,
                   metrics, audio_duration, keyword_intervals_in_time>>

(* Lines 162-163.                                                          *)
ReadDuration ==
    /\ pc = "duration"
    /\ \E n \in SampleCounts :
          audio_duration' = FDiv(IntVal(n), IntVal(SampleRate))
    /\ pc' = "timemap"
    /\ UNCHANGED <<entry, keywords, transcription, transcriber_result, steps, out,
                   raised, keyword_intervals, detected_keywords,
                   keyword_positions, metrics, keyword_metrics,
                   keyword_intervals_in_time>>

(* Line 166.                                                               *)
TimeMap ==
    /\ pc = "timemap"
    /\ LET r == IntervalsInTime(keyword_intervals, Len(transcription.val),
                                audio_duration)
       IN  IF \E i \in 1..Len(r) : IsErr(r[i][2]) \/ IsErr(r[i][3])
           THEN /\ raised' = "ZeroDivisionError"
                /\ pc' = "raised"
                /\ UNCHANGED keyword_intervals_in_time
           ELSE /\ keyword_intervals_in_time' = r
                /\ raised' = raised
                /\ pc' = "plot"
    /\ steps' = Append(steps, "time_mapper")
    /\ UNCHANGED <<entry, keywords, transcription, transcriber_result, out,
                   keyword_intervals, detected_keywords, keyword_positions,
                   metrics, keyword_metrics, audio_duration>>

(* Line 169.                                                               *)
Plot ==
    /\ pc = "plot"
    /\ steps' = Append(steps, "visualizer")
    /\ pc' = "print"
    /\ UNCHANGED <<entry, keywords, transcription, transcriber_result, out, raised,
                   keyword_intervals, detected_keywords, keyword_positions,
                   metrics, keyword_metrics, audio_duration,
                   keyword_intervals_in_time>>

(* Lines 172-173.                                                          *)
PrintTimes ==
    /\ pc = "print"
    /\ out' = out \o [i \in 1..Len(keyword_intervals_in_time) |-> "Keyword found between"]
    /\ pc' = "done"
    /\ UNCHANGED <<entry, keywords, transcription, transcriber_result, steps,
                   raised, keyword_intervals, detected_keywords,
                   keyword_positions, metrics, keyword_metrics, audio_duration,
                   keyword_intervals_in_time>>

Next ==
    \/ Preprocess
    \/ AudioToTextRecognized
    \/ AudioToTextFailed
    \/ MainIf
    \/ MainElse
    \/ DetectKeywords
    \/ ComputeAccuracy
    \/ ComputeIndividual
    \/ ReadDuration
    \/ TimeMap
    \/ Plot
    \/ PrintTimes

Spec == Init /\ [][Next]_vars

(* main does not stop at the test of line 139: the branch that the         *)
(* transcription selects is eventually taken.                              *)
LiveSpec == Spec /\ WF_vars(MainIf) /\ WF_vars(MainElse)

(* The detector and the two scorers called on any transcription.           *)
DetectNext == DetectKeywords \/ ComputeAccuracy \/ ComputeIndividual
DetectSpec == DetectInit /\ [][DetectNext]_vars

(* compute_accuracy called on any two lists.                               *)
AccuracyNext == ComputeAccuracy
AccuracySpec == AccuracyInit /\ [][AccuracyNext]_vars

(* compute_individual_keyword_metrics called on any mapping and list.      *)
KeywordMetricsNext == ComputeIndividual
KeywordMetricsSpec == KeywordMetricsInit /\ [][KeywordMetricsNext]_vars

----------------------------------------------------------------------------
(* Vocabulary of the properties.                                           *)

(* k occurs in t when letter case is ignored.                              *)
Present(t, k) ==
    \E i \in 0..(Len(t) - Len(k)) :
        \A j \in 1..Len(k) : Lower(t[i + j]) = Lower(k[j])

(* The least offset at which k occurs in t when letter case is ignored.    *)
IsFirstOffset(t, k, o) ==
    /\ o \in 0..(Len(t) - Len(k))
    /\ \A j \in 1..Len(k) : Lower(t[o + j]) = Lower(k[j])
    /\ \A i \in 0..(o - 1) : \E j \in 1..Len(k) : Lower(t[i + j]) # Lower(k[j])

Failures == {"UnknownValueError", "RequestError", "Exception"}

(* detect_keywords has been called and has returned or raised.             *)
DetectDone == "detector" \in Range(steps)
DetectReturned == DetectDone /\ raised # "KeyError"

InUnit(x) == ~IsErr(x) /\ 0 <= x[1] /\ x[1] <= x[2]

NoDuplicates(ks) == \A i, j \in 1..Len(ks) : ks[i] = ks[j] => i = j

IsPrefix(s, t) == Len(s) <= Len(t) /\ \A i \in 1..Len(s) : s[i] = t[i]

FoundKeyword(k) == Truthy(transcription) /\ Present(transcription.val, k)

Pipeline ==
    <<"normalizer", "transcriber", "detector", "scorer", "keyword_scorer",
      "time_mapper", "visualizer">>

----------------------------------------------------------------------------
(* C1: detect_keywords returns, and the mapping holds exactly one          *)
(* occurrence for every keyword of K present in T case-insensitively and   *)
(* none for every absent keyword, so every list of the mapping has length  *)
(* 0 or 1 (repeated and upper-case keywords included).                     *)
C1_ExactlyOnePerKeyword ==
    (DetectDone /\ Truthy(transcription)) =>
        /\ raised = "none"
        /\ \A k \in Range(keywords) :
              Len(keyword_positions[k]) =
                  IF Present(transcription.val, k) THEN 1 ELSE 0

(* C2: every returned occurrence (keyword, start, end) has                 *)
(* 0 <= start < end <= len(lower-cased T), and the lower-cased transcript  *)
(* from start to end is the lower-cased keyword (the empty keyword         *)
(* included).                                                              *)
C2_OffsetsInRange ==
    DetectReturned =>
        \A i \in 1..Len(keyword_intervals) :
            LET o == keyword_intervals[i]
                t == LowerStr(transcription.val)
            IN  /\ 0 <= o[2] /\ o[2] < o[3] /\ o[3] <= Len(t)
                /\ SubSeq(t, o[2] + 1, o[3]) = LowerStr(o[1])

(* C3: a keyword given with upper-case letters whose lower-cased form      *)
(* occurs in the transcript makes detect_keywords return normally, with    *)
(* the match at its offset in the lower-cased transcript recorded in the   *)
(* mapping entry of the input keyword (K = ["Quick"], T = "a quick fox":   *)
(* offsets 2 to 7).                                                        *)
C3_UpperCaseKeywordFound ==
    (DetectDone /\ Truthy(transcription)) =>
        \A k \in Range(keywords) :
            (k # LowerStr(k) /\ Present(transcription.val, k)) =>
                /\ raised = "none"
                /\ keyword_positions[k] # <<>>
                /\ IsFirstOffset(transcription.val, k, keyword_positions[k][1][1])
                /\ keyword_positions[k][1][2] = keyword_positions[k][1][1] + Len(k)
                /\ (k = QuickCapital /\ transcription.val = AQuickFox)
                       => keyword_positions[k][1] = <<2, 7>>

(* C4: compute_accuracy never divides by zero, each of precision, recall   *)
(* and F1 lies in [0,1], the true-positive count is at most                *)
(* min(|keywords|, |detected|), and with no keyword and nothing detected   *)
(* all three are 0.                                                        *)
C4_MetricsInUnitInterval ==
    /\ raised # "ZeroDivisionError"
    /\ pc # "raised"
    /\ pc = "done" =>
          /\ \A i \in 1..3 : InUnit(metrics[i])
          /\ AccTruePositives(detected_keywords, keywords) <= Len(keywords)
          /\ AccTruePositives(detected_keywords, keywords) <= Len(detected_keywords)
          /\ (keywords = <<>> /\ detected_keywords = <<>>)
                 => metrics = <<Zero, Zero, Zero>>

C4_Witness ==
    /\ pc = "done"
    /\ keywords = <<>>
    /\ detected_keywords = <<>>
    /\ metrics = <<Zero, Zero, Zero>>

(* C5: with the transcription None or "", detect_keywords returns without  *)
(* raising, with no occurrence, no detected keyword and no occurrence in   *)
(* the mapping (every input keyword maps to the empty list), and the       *)
(* aggregate metrics of that result are (0, 0, 0).                         *)
C5_AbsentTranscriptEmptyResults ==
    (DetectDone /\ ~Truthy(transcription)) =>
        /\ raised = "none"
        /\ keyword_intervals = <<>>
        /\ detected_keywords = <<>>
        /\ DOMAIN keyword_positions = Range(keywords)
        /\ \A k \in Range(keywords) : keyword_positions[k] = <<>>
        /\ "scorer" \in Range(steps) => metrics = <<Zero, Zero, Zero>>

C5_Witness ==
    /\ pc = "done"
    /\ transcription = Str(<<>>)
    /\ keywords = << <<"a">>, <<>> >>
    /\ metrics = <<Zero, Zero, Zero>>
    /\ keyword_intervals = <<>>

(* C6: after a transcriber failure audio_to_text has returned None, no     *)
(* exception ends the run, only the normalizer and the transcriber have    *)
(* run, and the run reaches its end having printed the "No transcription   *)
(* available" message; the components that run always form a prefix of     *)
(* normalizer, transcriber, detector, scorers, time mapper, visualizer.    *)
C6_Safety ==
    /\ IsPrefix(steps, Pipeline)
    /\ transcriber_result \in Failures =>
          /\ transcription = NoneVal
          /\ raised = "none"
          /\ pc \in {"check", "done"}
          /\ steps = <<"normalizer", "transcriber">>
          /\ pc = "done" => out[Len(out)] = "No transcription available."

C6_TranscriberFailureNonFatal ==
    /\ []C6_Safety
    /\ (transcriber_result \in Failures) ~>
           (pc = "done" /\ raised = "none"
               /\ out[Len(out)] = "No transcription available.")

C6_Witness ==
    /\ transcriber_result = "RequestError"
    /\ pc = "done"
    /\ steps = <<"normalizer", "transcriber">>
    /\ out[Len(out)] = "No transcription available."

(* C7: per keyword k, true_positives is the number of occurrences recorded *)
(* for k, false_positives the number recorded for all other keywords of    *)
(* the mapping, false_negatives 1 when k has no occurrence and 0           *)
(* otherwise; with K = ["a","b"], one occurrence of "a" and none of "b",   *)
(* false_positives("b") = 1.                                               *)
C7_PerKeywordCounts ==
    (entry = "compute_individual_keyword_metrics" /\ pc # "individual") =>
        /\ pc = "done"
        /\ DOMAIN keyword_metrics = Range(keywords)
        /\ \A k \in Range(keywords) :
              LET own == IF k \in DOMAIN keyword_positions
                         THEN Len(keyword_positions[k]) ELSE 0
                  others == {<<k2, i>> \in (DOMAIN keyword_positions) \X (1..MaxOcc + 1) :
                                k2 # k /\ i <= Len(keyword_positions[k2])}
              IN  /\ keyword_metrics[k].true_positives = own
                  /\ keyword_metrics[k].false_positives = Cardinality(others)
                  /\ keyword_metrics[k].false_negatives = IF own = 0 THEN 1 ELSE 0
        /\ (/\ keywords = << <<"a">>, <<"b">> >>
            /\ DOMAIN keyword_positions = {<<"a">>, <<"b">>}
            /\ Len(keyword_positions[<<"a">>]) = 1
            /\ Len(keyword_positions[<<"b">>]) = 0)
               => keyword_metrics[<<"b">>].false_positives = 1

C7_Witness ==
    /\ entry = "compute_individual_keyword_metrics"
    /\ pc = "done"
    /\ keywords = << <<"a">>, <<"b">> >>
    /\ keyword_positions = [k \in {<<"a">>, <<"b">>} |->
                               IF k = <<"a">> THEN OccList(1) ELSE <<>>]
    /\ keyword_metrics[<<"b">>].false_positives = 1
    /\ keyword_metrics[<<"b">>].false_negatives = 1

(* C8: every occurrence (k, start, end) is mapped to                       *)
(* (k, start / L * D, end / L * D); L = 20, D = 10 and (4, 9) give         *)
(* (2.0, 4.5); the mapping never divides by L = 0, and a run whose         *)
(* transcription is empty or None performs no time mapping.                *)
C8_TimeMappingLinearAndGuarded ==
    /\ raised # "ZeroDivisionError"
    /\ ~Truthy(transcription) => "time_mapper" \notin Range(steps)
    /\ "time_mapper" \in Range(steps) =>
          LET L == Len(transcription.val)
              D == audio_duration
          IN  /\ L > 0
              /\ Len(keyword_intervals_in_time) = Len(keyword_intervals)
              /\ \A i \in 1..Len(keyword_intervals) :
                    LET o == keyword_intervals[i]
                        m == keyword_intervals_in_time[i]
                    IN  /\ m[1] = o[1]
                        /\ m[2][2] > 0 /\ m[3][2] > 0
                        /\ m[2][1] * L * D[2] = o[2] * D[1] * m[2][2]
                        /\ m[3][1] * L * D[2] = o[3] * D[1] * m[3][2]
                        /\ (L = 20 /\ D = <<10, 1>> /\ o[2] = 4 /\ o[3] = 9)
                               => (m[2] = <<2, 1>> /\ m[3] = <<9, 2>>)

C8_Witness ==
    /\ pc = "done"
    /\ transcription = Str(TwentyChars)
    /\ keywords = <<Quick>>
    /\ audio_duration = <<10, 1>>
    /\ keyword_intervals = << <<Quick, 4, 9>> >>
    /\ keyword_intervals_in_time = << <<Quick, <<2, 1>>, <<9, 2>>>> >>

(* C9: the returned occurrence list and detected list have the same        *)
(* length, the i-th occurrence belongs to the i-th detected keyword, and   *)
(* the detected list is the lower-cased input list restricted to the       *)
(* keywords found (those occurring in a non-empty transcription), in the   *)
(* order of the input list.                                                *)
C9_OrderPreserved ==
    DetectReturned =>
        /\ Len(keyword_intervals) = Len(detected_keywords)
        /\ \A i \in 1..Len(keyword_intervals) :
              keyword_intervals[i][1] = detected_keywords[i]
        /\ detected_keywords =
              SelectSeq([i \in 1..Len(keywords) |-> LowerStr(keywords[i])],
                        FoundKeyword)

C9_Witness ==
    /\ DetectReturned
    /\ keywords = << <<"b">>, <<"a">> >>
    /\ transcription = Str(<<"a", "b">>)
    /\ detected_keywords = << <<"b">>, <<"a">> >>

(* C10: for a keyword list without duplicate strings, compute_accuracy on  *)
(* the detected list of detect_keywords has false_positives = 0, and       *)
(* precision 1 when a keyword is detected.                                 *)
C10_NoFalsePositives ==
    (DetectReturned /\ "scorer" \in Range(steps) /\ NoDuplicates(keywords)) =>
        /\ AccFalsePositives(detected_keywords, keywords) = 0
        /\ detected_keywords # <<>> => metrics[1] = One

====
